---- MODULE Spec2Model ----
(***************************************************************************)
(* A model of scaraplate's rollup: the dispatch resolver (get_strategy),   *)
(* the strategies of strategies.py and the rollup orchestrator of          *)
(* rollup.py.                                                              *)
(*                                                                         *)
(* Python str values are TLA+ strings; bytes values are sequences of       *)
(* integers 0..255; a BinaryIO stream is a record [buf, pos].              *)
(***************************************************************************)
EXTENDS Integers, Sequences, FiniteSets, TLC

VARIABLES
    pc,               \* position of the running operation
    scaraplate_yaml,  \* the loaded ScaraplateYaml (default_strategy, strategies_mapping)
    path,             \* get_strategy's `path` argument
    strategy_node,    \* the StrategyNode get_strategy returned
    instance,         \* the Strategy instance under test, as constructed
    ret,              \* what the last apply() returned or raised
    history,          \* the applications made so far: <<[self, ret], ...>>
    config_doc,       \* the parsed scaraplate.yaml document of the template
    fs,               \* the target project tree: [exists, dirs, files]
    fs0,              \* the target project tree when rollup was called
    context_file,     \* the cookiecutter context stored in the target project
    run,              \* rollup's locals: template_meta, project_dest, extra_context, cwd
    tempdir,          \* the TemporaryDirectory: [created, exists, entries]
    generated,        \* what cookiecutter wrote to output_dir: [rendered, listing, dirs]
    walk,             \* os.walk's position: [dir, entered, file]
    log,              \* one record per file apply_generated_project took up
    exc,              \* the exception rollup raised ("" for none)
    previous          \* the earlier runs of rollup on this target: [runs, fs0, ...]

dispatchVars == <<scaraplate_yaml, path, strategy_node>>

strategyVars == <<instance, ret, history>>

rollupVars == <<config_doc, fs, fs0, context_file, run, tempdir, generated, walk, log, exc,
                previous>>

vars == <<pc, scaraplate_yaml, path, strategy_node, instance, ret, history,
          config_doc, fs, fs0, context_file, run, tempdir, generated, walk, log, exc,
          previous>>

\* Python values: None, a BytesIO stream, the outcome of a call.
None == [kind |-> "None"]

BytesIO(b) == [kind |-> "BytesIO", buf |-> b, pos |-> 0]

Return(v) == [kind |-> "return", value |-> v]

Raise(e) == [kind |-> "raise", exc |-> e]

\* stream.read(): the bytes from the position to the end.
read(stream) == SubSeq(stream.buf, stream.pos + 1, Len(stream.buf))

\* The stream after read(): the position is at the end.
after_read(stream) == [stream EXCEPT !.pos = Len(stream.buf)]

seek(stream, n) == [stream EXCEPT !.pos = n]

(***************************************************************************)
(* Characters and strings                                                  *)
(***************************************************************************)

\* The printable ASCII characters in code point order: 32..95 and 97..126
\* (code point 96, the backquote, cannot be written in a TLA+ string and is
\* not used by any input).
Printable32 == " !\"#$%&'()*+,-./0123456789:;<=>?@ABCDEFGHIJKLMNOPQRSTUVWXYZ[\\]^_"

Printable97 == "abcdefghijklmnopqrstuvwxyz{|}~"

CharAt(s, i) == SubSeq(s, i, i)

IndexIn(s, c) ==
    LET at == {i \in 1..Len(s) : CharAt(s, i) = c}
    IN  IF at = {} THEN 0 ELSE CHOOSE i \in at : TRUE

IsAscii(c) == c = "\n" \/ IndexIn(Printable32, c) # 0 \/ IndexIn(Printable97, c) # 0

\* ord(c) of an ASCII character.
Ord(c) == IF c = "\n" THEN 10
          ELSE IF IndexIn(Printable32, c) # 0 THEN 31 + IndexIn(Printable32, c)
          ELSE 96 + IndexIn(Printable97, c)

\* Python's str ordering: lexicographic by code point, a proper prefix first.
RECURSIVE StrLessFrom(_, _, _)
StrLessFrom(a, b, i) ==
    IF i > Len(a) THEN i <= Len(b)
    ELSE IF i > Len(b) THEN FALSE
    ELSE IF CharAt(a, i) = CharAt(b, i) THEN StrLessFrom(a, b, i + 1)
    ELSE Ord(CharAt(a, i)) < Ord(CharAt(b, i))

StrLess(a, b) == StrLessFrom(a, b, 1)

(***************************************************************************)
(* fnmatch.fnmatch(name, pat) on a POSIX platform (normcase is the         *)
(* identity): `*` matches any run of characters (a `/` included), `?` one  *)
(* character, `[seq]` / `[!seq]` one character in / not in seq, a `[`      *)
(* without a closing `]` is literal.                                       *)
(***************************************************************************)

\* Index of the `]` closing the bracket opened at pat[j], 0 when there is none.
\* As fnmatch.translate: a leading `!` and then a leading `]` belong to the set.
BracketEnd(pat, j) ==
    LET a == IF j + 1 <= Len(pat) /\ CharAt(pat, j + 1) = "!" THEN j + 2 ELSE j + 1
        b == IF a <= Len(pat) /\ CharAt(pat, a) = "]" THEN a + 1 ELSE a
        ends == {k \in b..Len(pat) : CharAt(pat, k) = "]"}
    IN  IF ends = {} THEN 0 ELSE CHOOSE k \in ends : \A m \in ends : k <= m

\* Whether character c is in the set text `stuff` (ranges x-y by code point).
InBracketSet(c, stuff) ==
    \E p \in 1..Len(stuff) :
        \/ /\ CharAt(stuff, p) = c
           /\ (c = "-" => p = 1 \/ p = Len(stuff))
        \/ /\ p + 2 <= Len(stuff)
           /\ CharAt(stuff, p + 1) = "-"
           /\ Ord(CharAt(stuff, p)) <= Ord(c)
           /\ Ord(c) <= Ord(CharAt(stuff, p + 2))

RECURSIVE fnmatch_at(_, _, _, _)
fnmatch_at(name, pat, i, j) ==
    IF j > Len(pat) THEN i > Len(name)
    ELSE LET c == CharAt(pat, j) IN
         IF c = "*" THEN \E k \in i..(Len(name) + 1) : fnmatch_at(name, pat, k, j + 1)
         ELSE IF c = "?" THEN i <= Len(name) /\ fnmatch_at(name, pat, i + 1, j + 1)
         ELSE IF c = "[" /\ BracketEnd(pat, j) # 0
              THEN LET e == BracketEnd(pat, j)
                       neg == CharAt(pat, j + 1) = "!"
                       stuff == SubSeq(pat, IF neg THEN j + 2 ELSE j + 1, e - 1)
                   IN  /\ i <= Len(name)
                       /\ (InBracketSet(CharAt(name, i), stuff) # neg)
                       /\ fnmatch_at(name, pat, i + 1, e + 1)
         ELSE /\ i <= Len(name)
              /\ CharAt(name, i) = c
              /\ fnmatch_at(name, pat, i + 1, j + 1)

fnmatch(name, pat) == fnmatch_at(name, pat, 1, 1)

(***************************************************************************)
(* The loaded configuration.  A StrategyNode is an object: `id` is its     *)
(* identity (every loaded entry is a node of its own), `strategy` the      *)
(* class and `config` the strategy config.  strategies_mapping is a dict:  *)
(* a sequence of items in declaration (insertion) order, the keys unique.  *)
(***************************************************************************)

StrategyNode(id, cls, config) == [id |-> id, strategy |-> cls, config |-> config]

EmptyConfig == <<>>

\* sorted(items): insertion of each item before the first item whose key is
\* greater (items compare by key; keys are unique).
RECURSIVE sorted(_)
sorted(items) ==
    IF items = <<>> THEN <<>>
    ELSE LET rest == sorted(Tail(items))
             x == Head(items)
             before == {k \in 0..Len(rest) :
                           \A m \in 1..k : StrLess(rest[m].pattern, x.pattern)}
             n == CHOOSE k \in before : \A m \in before : m <= k
         IN  SubSeq(rest, 1, n) \o <<x>> \o SubSeq(rest, n + 1, Len(rest))

\* The loop of get_strategy over `items` from index i on.
RECURSIVE first_match(_, _, _, _)
first_match(items, p, i, default) ==
    IF i > Len(items) THEN default
    ELSE IF fnmatch(p, items[i].pattern) THEN items[i].node
    ELSE first_match(items, p, i + 1, default)

\* get_strategy without the sort: the patterns tried in declaration order.
get_strategy_declared_order(yaml, p) ==
    first_match(yaml.strategies_mapping, p, 1, yaml.default_strategy)

get_strategy(yaml, p) ==
    first_match(sorted(yaml.strategies_mapping), p, 1, yaml.default_strategy)

(***************************************************************************)
(* str <-> bytes, and the str helpers the strategies use                   *)
(***************************************************************************)

Chr(n) == IF n = 10 THEN "\n"
          ELSE IF n <= 95 THEN CharAt(Printable32, n - 31)
          ELSE CharAt(Printable97, n - 96)

AllAscii(s) == \A i \in 1..Len(s) : IsAscii(CharAt(s, i))

\* s.encode("ascii") of a str whose characters are all ASCII.
encode_ascii(s) == [i \in 1..Len(s) |-> Ord(CharAt(s, i))]

\* b.decode() of ASCII bytes.
RECURSIVE decode(_)
decode(b) == IF b = <<>> THEN "" ELSE Chr(Head(b)) \o decode(Tail(b))

\* `needle in hay` on bytes (or on str).
Contains(hay, needle) ==
    \E i \in 0..(Len(hay) - Len(needle)) : SubSeq(hay, i + 1, i + Len(needle)) = needle

\* Index of the first sep at or after i, 0 when there is none.
FindChar(s, sep, i) ==
    LET at == {k \in i..Len(s) : CharAt(s, k) = sep}
    IN  IF at = {} THEN 0 ELSE CHOOSE k \in at : \A m \in at : k <= m

\* s.split(sep) for a one-character sep.
RECURSIVE split_from(_, _, _)
split_from(s, sep, i) ==
    LET k == FindChar(s, sep, i)
    IN  IF k = 0 THEN <<SubSeq(s, i, Len(s))>>
        ELSE <<SubSeq(s, i, k - 1)>> \o split_from(s, sep, k + 1)

split(s, sep) == split_from(s, sep, 1)

\* sep.join(parts)
RECURSIVE join(_, _)
join(sep, parts) ==
    IF parts = <<>> THEN ""
    ELSE IF Len(parts) = 1 THEN parts[1]
    ELSE parts[1] \o sep \o join(sep, Tail(parts))

(***************************************************************************)
(* strategies.py                                                           *)
(***************************************************************************)

TemplateMeta(commit_url, is_git_dirty) ==
    [commit_url |-> commit_url, is_git_dirty |-> is_git_dirty]

\* The keyword parameters Strategy.__init__ accepts; no class of strategies.py
\* overrides __init__.
Strategy_init_params == {"target_contents", "template_contents", "template_meta"}

\* Strategy.__init__(**kwargs) for class cls: a TypeError for a missing or an
\* unexpected keyword argument, else the instance with its three attributes.
Strategy_init(cls, kwargs) ==
    IF DOMAIN kwargs # Strategy_init_params THEN Raise("TypeError")
    ELSE Return([cls |-> cls,
                 target_contents |-> kwargs.target_contents,
                 template_contents |-> kwargs.template_contents,
                 template_meta |-> kwargs.template_meta])

Overwrite_apply(self) == Return(self.template_contents)

line_comment_start == "#"

TemplateHash_comment(self) ==
    LET comment_lines ==
            <<"Generated by https://github.com/rambler-digital-solutions/scaraplate",
              IF self.template_meta.is_git_dirty
              THEN "From (dirty) " \o self.template_meta.commit_url
              ELSE "From " \o self.template_meta.commit_url>>
    IN  join("", [i \in 1..Len(comment_lines) |->
                     line_comment_start \o " " \o comment_lines[i] \o "\n"])

line_length == 87

\* _maybe_add_noqa with `>` for `>=`.
PythonTemplateHash_maybe_add_noqa_gt(line) ==
    IF Len(line) > line_length THEN line \o "  # noqa" ELSE line

PythonTemplateHash_maybe_add_noqa(line) ==
    IF Len(line) >= line_length THEN line \o "  # noqa" ELSE line

PythonTemplateHash_comment(self) ==
    LET comment == TemplateHash_comment(self)
        comment_lines == split(comment, "\n")
    IN  join("\n", [i \in 1..Len(comment_lines) |->
                       PythonTemplateHash_maybe_add_noqa(comment_lines[i])])

\* self.comment(): the method of the instance's class.
comment_of(self) ==
    IF self.cls = "PythonTemplateHash" THEN PythonTemplateHash_comment(self)
    ELSE TemplateHash_comment(self)

\* TemplateHash.apply returning the target stream without seek(0).
TemplateHash_apply_no_seek(self) ==
    IF ~AllAscii(comment_of(self)) THEN Raise("UnicodeEncodeError")
    ELSE LET comment == encode_ascii(comment_of(self))
         IN  IF /\ self.target_contents # None
                /\ Contains(read(self.target_contents), comment)
                /\ ~self.template_meta.is_git_dirty
             THEN Return(after_read(self.target_contents))
             ELSE Return(BytesIO(read(self.template_contents) \o <<10>> \o comment))

\* TemplateHash.apply without the `not is_git_dirty` condition.
TemplateHash_apply_skip_dirty(self) ==
    IF ~AllAscii(comment_of(self)) THEN Raise("UnicodeEncodeError")
    ELSE LET comment == encode_ascii(comment_of(self))
         IN  IF /\ self.target_contents # None
                /\ Contains(read(self.target_contents), comment)
             THEN Return(seek(after_read(self.target_contents), 0))
             ELSE Return(BytesIO(read(self.template_contents) \o <<10>> \o comment))

TemplateHash_apply(self) ==
    IF ~AllAscii(comment_of(self)) THEN Raise("UnicodeEncodeError")
    ELSE LET comment == encode_ascii(comment_of(self))
         IN  IF /\ self.target_contents # None
                /\ Contains(read(self.target_contents), comment)
                /\ ~self.template_meta.is_git_dirty
             THEN Return(seek(after_read(self.target_contents), 0))
             ELSE Return(BytesIO(read(self.template_contents) \o <<10>> \o comment))

(***************************************************************************)
(* parsers.py: pylintrc_parser and parser_to_pretty_output.  A parser      *)
(* (ConfigParser) is a function from section names to functions from       *)
(* option names to values.  The inputs have no continuation lines, no      *)
(* DEFAULT section and no interpolation.                                   *)
(***************************************************************************)

\* s.strip() of blanks.
RECURSIVE strip(_)
strip(s) ==
    IF s = "" THEN s
    ELSE IF CharAt(s, 1) = " " THEN strip(SubSeq(s, 2, Len(s)))
    ELSE IF CharAt(s, Len(s)) = " " THEN strip(SubSeq(s, 1, Len(s) - 1))
    ELSE s

\* s.lower(): ConfigParser's optionxform.
RECURSIVE lower(_)
lower(s) ==
    IF s = "" THEN s
    ELSE LET n == Ord(CharAt(s, 1))
         IN  (IF n >= 65 /\ n <= 90 THEN Chr(n + 32) ELSE CharAt(s, 1))
                 \o lower(SubSeq(s, 2, Len(s)))

\* Index of the first `=` or `:` of a line, 0 when there is none.
FirstDelimiter(t) ==
    LET at == {k \in 1..Len(t) : CharAt(t, k) \in {"=", ":"}}
    IN  IF at = {} THEN 0 ELSE CHOOSE k \in at : \A m \in at : k <= m

\* One line read into acc = [doc, cur, exc]: cur is the open section ("" before
\* the first header), exc the error raised so far ("" for none).
parse_line(acc, line) ==
    LET t == strip(line) IN
    IF acc.exc # "" THEN acc
    ELSE IF t = "" THEN acc
    ELSE IF CharAt(t, 1) \in {"#", ";"} THEN acc
    ELSE IF CharAt(t, 1) = "[" /\ FindChar(t, "]", 2) # 0
         THEN LET name == SubSeq(t, 2, FindChar(t, "]", 2) - 1)
              IN  IF name \in DOMAIN acc.doc
                  THEN [acc EXCEPT !.exc = "DuplicateSectionError"]
                  ELSE [doc |-> (name :> <<>>) @@ acc.doc, cur |-> name, exc |-> ""]
    ELSE IF acc.cur = "" THEN [acc EXCEPT !.exc = "MissingSectionHeaderError"]
    ELSE LET d == FirstDelimiter(t) IN
         IF d = 0 THEN [acc EXCEPT !.exc = "ParsingError"]
         ELSE LET key == lower(strip(SubSeq(t, 1, d - 1)))
                  value == strip(SubSeq(t, d + 1, Len(t)))
              IN  IF key \in DOMAIN acc.doc[acc.cur]
                  THEN [acc EXCEPT !.exc = "DuplicateOptionError"]
                  ELSE [acc EXCEPT !.doc[acc.cur] = (key :> value) @@ @]

RECURSIVE parse_lines(_, _, _)
parse_lines(acc, lines, i) ==
    IF i > Len(lines) THEN acc
    ELSE parse_lines(parse_line(acc, lines[i]), lines, i + 1)

\* pylintrc_parser(fileobj, source): the parser read from the stream's text.
pylintrc_parser(fileobj) ==
    LET acc == parse_lines([doc |-> <<>>, cur |-> "", exc |-> ""],
                           split(decode(read(fileobj)), "\n"), 1)
    IN  IF acc.exc # "" THEN Raise(acc.exc) ELSE Return(acc.doc)

RECURSIVE SortStrings(_)
SortStrings(S) ==
    IF S = {} THEN <<>>
    ELSE LET m == CHOOSE x \in S : \A y \in S \ {x} : StrLess(x, y)
         IN  <<m>> \o SortStrings(S \ {m})

\* One section, pretty-printed: the header and the options in sorted order.
pretty_section(parser, name) ==
    LET keys == SortStrings(DOMAIN parser[name])
    IN  "[" \o name \o "]\n"
            \o join("", [k \in 1..Len(keys) |->
                            keys[k] \o " = " \o parser[name][keys[k]] \o "\n"])

\* parser_to_pretty_output(parser): sections and options sorted, comments
\* gone, one blank line between sections.
parser_to_pretty_output(parser) ==
    LET names == SortStrings(DOMAIN parser)
    IN  BytesIO(encode_ascii(
            join("\n", [k \in 1..Len(names) |-> pretty_section(parser, names[k])])))

(***************************************************************************)
(* strategies.py: PylintrcMerge                                            *)
(***************************************************************************)

\* _maybe_preserve_key: the template parser afterwards, or the KeyError that
\* template_parser[section] raises for a section the template does not have.
PylintrcMerge_maybe_preserve_key(template_parser, target_parser, section, key) ==
    IF section \notin DOMAIN target_parser THEN Return(template_parser)
    ELSE IF key \notin DOMAIN target_parser[section] THEN Return(template_parser)
    ELSE IF section \notin DOMAIN template_parser THEN Raise("KeyError")
    ELSE Return([template_parser EXCEPT
                    ![section] = (key :> target_parser[section][key]) @@ @])

PylintrcMerge_apply(self) ==
    LET template_parser == pylintrc_parser(self.template_contents) IN
    IF template_parser.kind = "raise" THEN template_parser
    ELSE IF self.target_contents = None
         THEN Return(parser_to_pretty_output(template_parser.value))
    ELSE LET target_parser == pylintrc_parser(self.target_contents) IN
         IF target_parser.kind = "raise" THEN target_parser
         ELSE LET a == PylintrcMerge_maybe_preserve_key(
                           template_parser.value, target_parser.value,
                           "TYPECHECK", "ignored-modules")
              IN  IF a.kind = "raise" THEN a
                  ELSE LET b == PylintrcMerge_maybe_preserve_key(
                                    a.value, target_parser.value,
                                    "TYPECHECK", "ignored-classes")
                       IN  IF b.kind = "raise" THEN b
                           ELSE Return(parser_to_pretty_output(b.value))

\* strategy.apply(): the method of the instance's class.
apply(self) ==
    IF self.cls = "Overwrite" THEN Overwrite_apply(self)
    ELSE IF self.cls \in {"TemplateHash", "PythonTemplateHash"} THEN TemplateHash_apply(self)
    ELSE PylintrcMerge_apply(self)

(***************************************************************************)
(* The dispatch resolver on its own: Init draws a configuration and a      *)
(* path, GetStrategy resolves the path.                                    *)
(***************************************************************************)

\* Largest number of strategies_mapping entries of a drawn configuration.
MaxPatterns == 3

Patterns == {"*", "*.py", "setup.py", "s*", "[r-t]etup.?y", "sub/*"}

Paths == {"setup.py", "sub/setup.py", ".pylintrc", "sub/a.py"}

\* The strategy a drawn configuration declares for a pattern.
DeclaredStrategy(pattern) ==
    IF pattern = "*.py" THEN "PythonTemplateHash"
    ELSE IF pattern \in {"setup.py", "[r-t]etup.?y"} THEN "TemplateHash"
    ELSE "Overwrite"

\* The default node has id 0, the node of the k-th declared entry id k.
DefaultNodes == {StrategyNode(0, s, EmptyConfig) : s \in {"Overwrite", "TemplateHash"}}

\* The declarations: every sequence of at most MaxPatterns distinct patterns.
Mappings ==
    UNION {
        {m \in [1..n -> Patterns] : \A a, b \in 1..n : a # b => m[a] # m[b]}
        : n \in 0..MaxPatterns}

Declared(m) ==
    [k \in 1..Len(m) |->
        [pattern |-> m[k], node |-> StrategyNode(k, DeclaredStrategy(m[k]), EmptyConfig)]]

NoNode == StrategyNode(-1, "", EmptyConfig)

IdleDispatch ==
    /\ scaraplate_yaml = [default_strategy |-> NoNode, strategies_mapping |-> <<>>]
    /\ path = ""
    /\ strategy_node = NoNode

IdleStrategy ==
    /\ instance = None
    /\ ret = None
    /\ history = <<>>

NoTree == [exists |-> FALSE, dirs |-> {}, files |-> <<>>]

NoRun == [template_meta |-> None, project_dest |-> "", extra_context |-> <<>>, cwd |-> ""]

NoTempdir == [created |-> FALSE, exists |-> FALSE, entries |-> {}]

NoGenerated == [rendered |-> FALSE, listing |-> <<>>, dirs |-> <<>>]

\* No earlier run: runs counts the finished runs, fs0 is the tree before the
\* first of them, template_meta and generated what they found of the template.
NoPrevious ==
    [runs |-> 0, fs0 |-> NoTree, template_meta |-> None,
     generated |-> NoGenerated, pc |-> "", exc |-> "", log |-> <<>>]

IdleRollup ==
    /\ config_doc = None
    /\ fs = NoTree
    /\ fs0 = NoTree
    /\ context_file = None
    /\ run = NoRun
    /\ tempdir = NoTempdir
    /\ generated = NoGenerated
    /\ walk = [dir |-> 0, entered |-> FALSE, file |-> 0]
    /\ log = <<>>
    /\ exc = ""
    /\ previous = NoPrevious

InitDispatch ==
    /\ pc = "dispatch"
    /\ \E d \in DefaultNodes, m \in Mappings :
           scaraplate_yaml = [default_strategy |-> d, strategies_mapping |-> Declared(m)]
    /\ path \in Paths
    /\ strategy_node = NoNode
    /\ IdleStrategy
    /\ IdleRollup

GetStrategy ==
    /\ pc = "dispatch"
    /\ strategy_node' = get_strategy(scaraplate_yaml, path)
    /\ pc' = "dispatched"
    /\ UNCHANGED <<scaraplate_yaml, path>>
    /\ UNCHANGED strategyVars
    /\ UNCHANGED rollupVars

NextDispatch == GetStrategy

SpecDispatch == InitDispatch /\ [][NextDispatch]_vars

(***************************************************************************)
(* The strategies on their own: Init constructs one Strategy instance,     *)
(* Apply calls apply() on it, Reapply constructs a fresh instance of the   *)
(* same class whose target is what the last apply() returned.              *)
(***************************************************************************)

\* Largest number of applications in a row.
MaxApplications == 2

Sha == "0123456789abcdef0123456789abcdef01234567"

CommitUrl(repo) == "https://github.com/a/" \o repo \o "/commit/" \o Sha

\* Commit URLs of 71, 72, 79 and 80 characters: the `From` line of the trailer
\* is 86 and 87 characters long (dirty: 86, 87, 94 and 95).
Repos == {"tt", "ttt", "tttttttttt", "ttttttttttt"}

Metas == {TemplateMeta(CommitUrl(r), d) : r \in Repos, d \in BOOLEAN}

HashFamily == {"TemplateHash", "PythonTemplateHash"}

TextTemplates == {encode_ascii("import os\n"), encode_ascii("")}

Construct(cls, target, template, meta) ==
    Strategy_init(cls, [target_contents |-> target,
                        template_contents |-> template,
                        template_meta |-> meta]).value

\* The trailer an instance of cls with metadata meta appends.
TrailerOf(cls, meta) == encode_ascii(comment_of(Construct(cls, None, BytesIO(<<>>), meta)))

Flip(meta) == [meta EXCEPT !.is_git_dirty = ~@]

\* Targets of a TemplateHash application: none, a file without a trailer, an
\* earlier output with this very trailer, a file with this trailer in its
\* middle, an earlier output whose trailer differs in the dirty flag.
HashTargets(cls, meta) ==
    { None,
      BytesIO(encode_ascii("local = 1\n")),
      BytesIO(encode_ascii("import os\n") \o <<10>> \o TrailerOf(cls, meta)),
      BytesIO(encode_ascii("x = 1\n") \o TrailerOf(cls, meta) \o encode_ascii("y = 2\n")),
      BytesIO(encode_ascii("import os\n") \o <<10>> \o TrailerOf(cls, Flip(meta))) }

IniTemplates ==
    { encode_ascii("[MASTER]\njobs=1\n\n[TYPECHECK]\nignored-modules = foo\nignored-classes=Base\n"),
      encode_ascii("# lint\n[TYPECHECK]\nIgnored-Modules=foo\n"),
      encode_ascii("[MASTER]\njobs = 2\n"),
      encode_ascii("[TYPECHECK]\ngenerated-members : x\n") }

IniTargets ==
    { None,
      BytesIO(encode_ascii("[TYPECHECK]\nignored-modules=bar\n")),
      BytesIO(encode_ascii("[TYPECHECK]\nignored-classes = Mixin\nignored-modules = bar,baz\n; local\n[MASTER]\njobs=8\n")),
      BytesIO(encode_ascii("[MASTER]\njobs=4\n")),
      BytesIO(encode_ascii("[TYPECHECK]\ngenerated-members=y\n")) }

CleanMeta == TemplateMeta(CommitUrl("tt"), FALSE)

TemplatesFor(cls) == IF cls = "PylintrcMerge" THEN IniTemplates ELSE TextTemplates

InitStrategy ==
    /\ pc = "constructed"
    /\ \/ \E cls \in HashFamily, m \in Metas, tpl \in TextTemplates :
              \E t \in HashTargets(cls, m) : instance = Construct(cls, t, BytesIO(tpl), m)
       \/ \E tpl \in TextTemplates, t \in HashTargets("TemplateHash", CleanMeta) :
              instance = Construct("Overwrite", t, BytesIO(tpl), CleanMeta)
       \/ \E tpl \in IniTemplates, t \in IniTargets :
              instance = Construct("PylintrcMerge", t, BytesIO(tpl), CleanMeta)
    /\ ret = None
    /\ history = <<>>
    /\ IdleDispatch
    /\ IdleRollup

\* strategy.apply() on the instance just constructed.
Apply ==
    /\ pc = "constructed"
    /\ ret' = apply(instance)
    /\ history' = Append(history, [self |-> instance, ret |-> ret'])
    /\ pc' = "applied"
    /\ UNCHANGED instance
    /\ UNCHANGED dispatchVars
    /\ UNCHANGED rollupVars

\* A fresh instance of the same class and metadata, its target the bytes the
\* last apply() returned, its template any template; apply() on it.
Reapply ==
    /\ pc = "applied"
    /\ Len(history) < MaxApplications
    /\ ret.kind = "return"
    /\ ret.value # None
    /\ \E tpl \in TemplatesFor(instance.cls) :
           instance' = Construct(instance.cls, BytesIO(read(ret.value)), BytesIO(tpl),
                                 instance.template_meta)
    /\ ret' = apply(instance')
    /\ history' = Append(history, [self |-> instance', ret |-> ret'])
    /\ pc' = "applied"
    /\ UNCHANGED dispatchVars
    /\ UNCHANGED rollupVars

NextStrategy == Apply \/ Reapply

SpecStrategy == InitStrategy /\ [][NextStrategy]_vars

(***************************************************************************)
(* config.py: get_scaraplate_yaml.  A document value is a string, a number *)
(* or a mapping (its items in document order).                             *)
(***************************************************************************)

Str(x) == [shape |-> "str", str |-> x]

Num(n) == [shape |-> "int", int |-> n]

Map(items) == [shape |-> "map", items |-> items]

Item(k, v) == [key |-> k, value |-> v]

Keys(m) == {m.items[i].key : i \in 1..Len(m.items)}

Get(m, k) == m.items[CHOOSE i \in 1..Len(m.items) : m.items[i].key = k].value

\* What a dotted reference names: a Strategy subclass, the abstract base, a
\* type that is no Strategy, a module; anything else cannot be imported.
import_string(ref) ==
    IF ref \in {"scaraplate.strategies.Overwrite", "scaraplate.strategies.TemplateHash",
                "scaraplate.strategies.PythonTemplateHash",
                "scaraplate.strategies.PylintrcMerge"}
    THEN [kind |-> "class", name |-> SubSeq(ref, 23, Len(ref)), strategy |-> TRUE]
    ELSE IF ref = "myproject.ExtensionStrategy"
    THEN [kind |-> "class", name |-> "ExtensionStrategy", strategy |-> TRUE]
    ELSE IF ref = "scaraplate.strategies.Strategy"
    THEN [kind |-> "class", name |-> "Strategy", strategy |-> TRUE]
    ELSE IF ref = "tempfile.TemporaryDirectory"
    THEN [kind |-> "class", name |-> "TemporaryDirectory", strategy |-> FALSE]
    ELSE IF ref = "tempfile"
    THEN [kind |-> "module", name |-> "tempfile", strategy |-> FALSE]
    ELSE [kind |-> "missing", name |-> "", strategy |-> FALSE]

\* The class a strategy reference names: a ValueError unless it is a type, a
\* subclass of Strategy, and not Strategy itself.
class_from_str(ref) ==
    LET x == import_string(ref)
    IN  IF x.kind # "class" \/ ~x.strategy \/ x.name = "Strategy"
        THEN Raise("ValueError")
        ELSE Return(x.name)

\* The StrategyConfig of a `config` mapping: a function of its keys.
config_of(m) == [k \in Keys(m) |-> Get(m, k)]

\* One strategy entry: a reference, or a mapping with `strategy` (a string)
\* and an optional `config` (a mapping).
load_strategy_node(entry, id) ==
    IF entry.shape = "str"
    THEN LET cls == class_from_str(entry.str)
         IN  IF cls.kind = "raise" THEN cls
             ELSE Return(StrategyNode(id, cls.value, EmptyConfig))
    ELSE IF entry.shape # "map" THEN Raise("ValueError")
    ELSE IF "strategy" \notin Keys(entry) THEN Raise("ValueError")
    ELSE IF Get(entry, "strategy").shape # "str" THEN Raise("ValueError")
    ELSE IF "config" \in Keys(entry) /\ Get(entry, "config").shape # "map"
         THEN Raise("ValueError")
    ELSE LET cls == class_from_str(Get(entry, "strategy").str)
         IN  IF cls.kind = "raise" THEN cls
             ELSE Return(StrategyNode(id, cls.value,
                             IF "config" \in Keys(entry)
                             THEN config_of(Get(entry, "config"))
                             ELSE EmptyConfig))

\* get_scaraplate_yaml: the ScaraplateYaml of a document, or a ValueError when
\* a required key is missing or any one entry is invalid.
get_scaraplate_yaml(doc) ==
    IF doc.shape # "map" THEN Raise("ValueError")
    ELSE IF ~({"default_strategy", "strategies_mapping"} \subseteq Keys(doc))
         THEN Raise("ValueError")
    ELSE IF Get(doc, "strategies_mapping").shape # "map" THEN Raise("ValueError")
    ELSE LET default == load_strategy_node(Get(doc, "default_strategy"), 0)
             items == Get(doc, "strategies_mapping").items
             nodes == [k \in 1..Len(items) |-> load_strategy_node(items[k].value, k)]
         IN  IF default.kind = "raise" THEN default
             ELSE IF \E k \in 1..Len(items) : nodes[k].kind = "raise"
                  THEN Raise("ValueError")
             ELSE Return([default_strategy |-> default.value,
                          strategies_mapping |->
                              [k \in 1..Len(items) |->
                                  [pattern |-> items[k].key, node |-> nodes[k].value]]])

(***************************************************************************)
(* rollup.py: the file system of the target project and of the scratch     *)
(* directory.  A tree is [exists, dirs, files]: whether its top directory  *)
(* exists, the relative paths of the directories below it, and a function  *)
(* from the relative paths of its files to [content, mode].                *)
(***************************************************************************)

\* 0o777, the permission bits of st_mode.
Mode777 == 511

\* st_mode & 0o777
PermissionBits(st_mode) == st_mode % (Mode777 + 1)

\* path_from_template_root / f
RelPath(rel, name) == IF rel = "." THEN name ELSE rel \o "/" \o name

\* Lines 204-209 writing the template file's st_mode unmasked.
write_result_unmasked(tree, rel, result, st_mode) ==
    IF result = None THEN tree
    ELSE [tree EXCEPT !.files = (rel :> [content |-> read(result), mode |-> st_mode]) @@ @]

\* Lines 204-209: a result that is not None is written to the target file,
\* which then gets the permission bits of the template file.
write_result(tree, rel, result, st_mode) ==
    IF result = None THEN tree
    ELSE [tree EXCEPT !.files =
             (rel :> [content |-> read(result), mode |-> PermissionBits(st_mode)]) @@ @]

\* mkdir(parents=True, exist_ok=True) of the directory rel of the tree.
mkdir(tree, rel) ==
    IF rel = "." THEN [tree EXCEPT !.exists = TRUE]
    ELSE [tree EXCEPT !.exists = TRUE, !.dirs = @ \cup {rel}]

\* The with-block of TemporaryDirectory left only on success.
TemporaryDirectory_exit_on_success(td, e) ==
    IF e = "" THEN [td EXCEPT !.exists = FALSE, !.entries = {}] ELSE td

\* Leaving the with-block of TemporaryDirectory, by its end or by the
\* exception e: the directory and all it holds are removed.
TemporaryDirectory_exit(td, e) == [td EXCEPT !.exists = FALSE, !.entries = {}]

\* Line 102 comparing by membership.
structure_matches_contains(actual, expected) ==
    \A i \in 1..Len(expected) : \E j \in 1..Len(actual) : actual[j] = expected[i]

\* Line 102: the listing of output_dir is exactly [project_dest].
structure_matches(actual, expected) == actual = expected

\* The keyword arguments apply_generated_project passes to the strategy class.
strategy_kwargs(target_contents, template_contents, template_meta, config, extra_context) ==
    [target_contents |-> target_contents,
     template_contents |-> template_contents,
     template_meta |-> template_meta,
     config |-> config,
     extra_context |-> extra_context]

\* strategy_node.strategy(**kwargs): the classes of strategies.py inherit
\* Strategy.__init__; a Strategy subclass from elsewhere (ExtensionStrategy)
\* takes the five keyword arguments.
construct(cls, kwargs) ==
    IF cls = "ExtensionStrategy"
    THEN IF DOMAIN kwargs # Strategy_init_params \cup {"config", "extra_context"}
         THEN Raise("TypeError")
         ELSE Return([cls |-> cls,
                      target_contents |-> kwargs.target_contents,
                      template_contents |-> kwargs.template_contents,
                      template_meta |-> kwargs.template_meta,
                      config |-> kwargs.config,
                      extra_context |-> kwargs.extra_context])
    ELSE Strategy_init(cls, kwargs)

\* What apply() of an ExtensionStrategy may do: return None (leave the file),
\* the template stream, the target stream, bytes of its own, or raise.
ExtensionStrategy_apply(self) ==
    {Return(None), Return(self.template_contents),
     Return(BytesIO(encode_ascii("merged\n"))), Raise("MergeError")}
        \cup (IF self.target_contents = None THEN {}
              ELSE {Return(self.target_contents)})

\* The outcomes of strategy.apply().
apply_outcomes(self) ==
    IF self.cls = "ExtensionStrategy" THEN ExtensionStrategy_apply(self)
    ELSE {apply(self)}

(***************************************************************************)
(* rollup.py: rollup and apply_generated_project, statement by statement.  *)
(***************************************************************************)

\* Largest number of files in the top directory of a rendered project.
MaxRootFiles == 1

\* st_mode of a regular file with permission bits perm (S_IFREG | perm).
RegularFile(perm) == 32768 + perm

ExtensionEntry ==
    Map(<<Item("strategy", Str("myproject.ExtensionStrategy")),
          Item("config", Map(<<Item("some_key", Str("yes"))>>))>>)

ValidDefaultEntries == {Str("scaraplate.strategies.Overwrite"), ExtensionEntry}

ValidMappingEntries ==
    {Map(<<Item("strategy", Str("scaraplate.strategies.TemplateHash"))>>), ExtensionEntry}

\* The invalid entries of test_get_scaraplate_yaml_invalid_strategies.
InvalidEntries ==
    { Str("tempfile.TemporaryDirectory"),
      Str("tempfile"),
      Str("scaraplate.strategies.Strategy"),
      Map(<<Item("strategy", Str("tempfile.TemporaryDirectory"))>>),
      Map(<<Item("strategy", Num(42))>>),
      Map(<<Item("config", Map(<<>>))>>),
      Map(<<Item("strategy", Str("scaraplate.strategies.Overwrite")), Item("config", Num(42))>>),
      Num(42) }

\* The documents: a default entry and the entries of `setup.py` and `*.py`,
\* declared in this order.
ConfigDoc(d, e1, e2) ==
    Map(<<Item("default_strategy", d),
          Item("strategies_mapping", Map(<<Item("setup.py", e1), Item("*.py", e2)>>))>>)

ConfigDocs ==
    {ConfigDoc(d, e1, e2) :
        d \in ValidDefaultEntries \cup InvalidEntries,
        e1 \in ValidMappingEntries \cup InvalidEntries,
        e2 \in ValidMappingEntries \cup InvalidEntries}

File(content, mode) == [content |-> content, mode |-> mode]

\* The target project before the run: missing, empty, with a README of its
\* own, with a README and sub/a.py.
TargetTrees ==
    { NoTree,
      [exists |-> TRUE, dirs |-> {}, files |-> <<>>],
      [exists |-> TRUE, dirs |-> {},
       files |-> ("README" :> File(encode_ascii("mine\n"), 384))],
      [exists |-> TRUE, dirs |-> {"sub"},
       files |-> ("README" :> File(encode_ascii("mine\n"), 384))
                 @@ ("sub/a.py" :> File(encode_ascii("import sys\n"), 420))] }

\* The stored context: no file, or one naming another project_dest.
ContextFiles == {None, Return([project_dest |-> "renamed"])}

RootNames == <<"README", "setup.py", ".pylintrc">>

Rendered(name) ==
    [name |-> name,
     contents |-> encode_ascii(name \o "\n"),
     st_mode |-> IF name = "README" THEN RegularFile(420) ELSE RegularFile(493)]

\* os.walk of a rendered project: the top directory with its first n root
\* files, then (when has_sub) the directory sub with a.py.
RenderedDirs(n, has_sub) ==
    <<[rel |-> ".",
       dirs |-> IF has_sub THEN <<"sub">> ELSE <<>>,
       files |-> [k \in 1..n |-> Rendered(RootNames[k])]]>>
    \o (IF has_sub
        THEN <<[rel |-> "sub", dirs |-> <<>>, files |-> <<Rendered("a.py")>>]>>
        ELSE <<>>)

\* What os.listdir(output_dir) may be after cookiecutter ran with project_dest
\* dest in its context: the one directory, the directory and a stray entry (in
\* either order), nothing.
Listings(dest) == {<<dest>>, <<dest, "stray">>, <<"stray", dest>>, <<>>}

InitRollup ==
    /\ pc = "load_config"
    /\ config_doc \in ConfigDocs
    /\ fs0 \in TargetTrees
    /\ fs = fs0
    /\ context_file \in ContextFiles
    /\ run = [NoRun EXCEPT !.cwd = "/home/user"]
    /\ tempdir = NoTempdir
    /\ generated = NoGenerated
    /\ walk = [dir |-> 0, entered |-> FALSE, file |-> 0]
    /\ log = <<>>
    /\ exc = ""
    /\ previous = NoPrevious
    /\ IdleDispatch
    /\ IdleStrategy

\* Line 26: scaraplate_yaml = get_scaraplate_yaml(template_path), with the
\* target directory made first.
LoadConfig_after_mkdir ==
    /\ pc = "load_config"
    /\ fs' = mkdir(fs, ".")
    /\ LET loaded == get_scaraplate_yaml(config_doc)
       IN  IF loaded.kind = "raise"
           THEN /\ exc' = loaded.exc
                /\ pc' = "raised"
                /\ UNCHANGED scaraplate_yaml
           ELSE /\ scaraplate_yaml' = loaded.value
                /\ pc' = "template_meta"
                /\ UNCHANGED exc
    /\ UNCHANGED <<path, strategy_node, config_doc, previous, fs0, context_file, run, tempdir,
                   generated, walk, log>>
    /\ UNCHANGED strategyVars

\* Line 26: scaraplate_yaml = get_scaraplate_yaml(template_path)
LoadConfig ==
    /\ pc = "load_config"
    /\ LET loaded == get_scaraplate_yaml(config_doc)
       IN  IF loaded.kind = "raise"
           THEN /\ exc' = loaded.exc
                /\ pc' = "raised"
                /\ UNCHANGED scaraplate_yaml
           ELSE /\ scaraplate_yaml' = loaded.value
                /\ pc' = "template_meta"
                /\ UNCHANGED exc
    /\ UNCHANGED <<path, strategy_node, config_doc, previous, fs, fs0, context_file, run, tempdir,
                   generated, walk, log>>
    /\ UNCHANGED strategyVars

\* Lines 27-29: template_meta = get_template_meta_from_git(...); a run
\* after another finds the template repository as that one found it.
GetTemplateMeta ==
    /\ pc = "template_meta"
    /\ \E dirty \in BOOLEAN :
           /\ previous.template_meta # None =>
                  dirty = previous.template_meta.is_git_dirty
           /\ run' = [run EXCEPT !.template_meta = TemplateMeta(CommitUrl("tt"), dirty)]
    /\ pc' = "mkdir_target"
    /\ UNCHANGED <<config_doc, previous, fs, fs0, context_file, tempdir, generated, walk, log, exc>>
    /\ UNCHANGED dispatchVars
    /\ UNCHANGED strategyVars

\* Lines 31-36: the target directory is made, project_dest is its name, the
\* stored context is read (an empty one when its file is missing).
MkdirTarget ==
    /\ pc = "mkdir_target"
    /\ fs' = mkdir(fs, ".")
    /\ run' = [run EXCEPT
                  !.project_dest = "myproject",
                  !.extra_context = IF context_file = None THEN <<>> ELSE context_file.value]
    /\ pc' = "tempdir"
    /\ UNCHANGED <<config_doc, previous, fs0, context_file, tempdir, generated, walk, log, exc>>
    /\ UNCHANGED dispatchVars
    /\ UNCHANGED strategyVars

\* Lines 38-60: the TemporaryDirectory is entered; out, cookiecutter_home and
\* its cookiecutterrc.yaml are made in it; project_dest is set in the context
\* unless it is there.
EnterTempdir ==
    /\ pc = "tempdir"
    /\ tempdir' = [created |-> TRUE, exists |-> TRUE,
                   entries |-> {"out", "cookiecutter_home",
                                "cookiecutter_home/cookiecutterrc.yaml"}]
    /\ run' = [run EXCEPT
                  !.extra_context =
                      IF "project_dest" \in DOMAIN @ THEN @
                      ELSE ("project_dest" :> run.project_dest) @@ @]
    /\ pc' = "render"
    /\ UNCHANGED <<config_doc, previous, fs, fs0, context_file, generated, walk, log, exc>>
    /\ UNCHANGED dispatchVars
    /\ UNCHANGED strategyVars

\* Lines 62-83: cookiecutter renders into output_dir, its replay data into
\* cookiecutter_home, with the working directory changed and restored; or it
\* raises.  A run after another renders the same template to the same files.
Render ==
    /\ pc = "render"
    /\ \E failed \in BOOLEAN :
           IF failed
           THEN /\ exc' = "CookiecutterException"
                /\ tempdir' = TemporaryDirectory_exit(tempdir, exc')
                /\ pc' = "raised"
                /\ UNCHANGED generated
           ELSE /\ \E listing \in Listings(run.extra_context.project_dest),
                      n \in 0..MaxRootFiles, has_sub \in BOOLEAN :
                       /\ generated' = [rendered |-> TRUE, listing |-> listing,
                                        dirs |-> RenderedDirs(n, has_sub)]
                       /\ previous.generated.rendered => generated' = previous.generated
                /\ tempdir' = [tempdir EXCEPT
                                  !.entries = @ \cup {"cookiecutter_home/replay"}
                                      \cup {"out/" \o generated'.listing[k] :
                                               k \in 1..Len(generated'.listing)}]
                /\ pc' = "validate"
                /\ UNCHANGED exc
    /\ UNCHANGED <<config_doc, previous, fs, fs0, context_file, run, walk, log>>
    /\ UNCHANGED dispatchVars
    /\ UNCHANGED strategyVars

\* Lines 100-111: the listing of output_dir must be [project_dest].
ValidateStructure ==
    /\ pc = "validate"
    /\ IF structure_matches(generated.listing, <<run.project_dest>>)
       THEN /\ pc' = "walk"
            /\ walk' = [dir |-> 1, entered |-> FALSE, file |-> 1]
            /\ UNCHANGED <<exc, tempdir>>
       ELSE /\ exc' = "RuntimeError"
            /\ tempdir' = TemporaryDirectory_exit(tempdir, exc')
            /\ pc' = "raised"
            /\ UNCHANGED walk
    /\ UNCHANGED <<config_doc, previous, fs, fs0, context_file, run, generated, log>>
    /\ UNCHANGED dispatchVars
    /\ UNCHANGED strategyVars

\* The position after the file at walk.file: the next file, or the next
\* directory of the walk.
NextPosition ==
    IF walk.file < Len(generated.dirs[walk.dir].files)
    THEN [walk EXCEPT !.file = @ + 1]
    ELSE [dir |-> walk.dir + 1, entered |-> FALSE, file |-> 1]

\* Lines 172-179: the next directory of the walk: its target directory and
\* the target directories of its subdirectories are made.
WalkDir ==
    /\ pc = "walk"
    /\ walk.dir <= Len(generated.dirs)
    /\ ~walk.entered
    /\ LET d == generated.dirs[walk.dir]
           made == mkdir(fs, d.rel)
           subdirs == {RelPath(d.rel, d.dirs[k]) : k \in 1..Len(d.dirs)}
       IN  /\ fs' = [made EXCEPT !.dirs = @ \cup subdirs]
           /\ walk' = IF d.files = <<>>
                      THEN [dir |-> walk.dir + 1, entered |-> FALSE, file |-> 1]
                      ELSE [walk EXCEPT !.entered = TRUE]
    /\ UNCHANGED <<pc, config_doc, previous, fs0, context_file, run, tempdir, generated, log, exc>>
    /\ UNCHANGED dispatchVars
    /\ UNCHANGED strategyVars

\* Lines 181-209: one file of the walk: its strategy is resolved and
\* constructed, apply() is called, a result that is not None is written and
\* chmod'ed.  An exception (of the constructor, of apply(), of the write)
\* leaves rollup through the with-block.
ProcessFile ==
    /\ pc = "walk"
    /\ walk.dir <= Len(generated.dirs)
    /\ walk.entered
    /\ LET d == generated.dirs[walk.dir]
           f == d.files[walk.file]
           rel == RelPath(d.rel, f.name)
           node == get_strategy(scaraplate_yaml, rel)
           template_contents == BytesIO(f.contents)
           target_contents == IF rel \in DOMAIN fs.files
                              THEN BytesIO(fs.files[rel].content)
                              ELSE None
           made == construct(node.strategy,
                             strategy_kwargs(target_contents, template_contents,
                                             run.template_meta, node.config,
                                             run.extra_context))
           entry == [path |-> rel, node |-> node, st_mode |-> f.st_mode,
                     before |-> IF rel \in DOMAIN fs.files THEN fs.files[rel] ELSE None,
                     constructed |-> made.kind = "return",
                     applied |-> 0, ret |-> made, completed |-> FALSE]
       IN  IF made.kind = "raise"
           THEN /\ log' = Append(log, entry)
                /\ exc' = made.exc
                /\ tempdir' = TemporaryDirectory_exit(tempdir, exc')
                /\ pc' = "raised"
                /\ UNCHANGED <<fs, walk>>
           ELSE \E r \in apply_outcomes(made.value), os_error \in BOOLEAN :
                    IF r.kind = "raise" \/ (os_error /\ r.value # None)
                    THEN /\ log' = Append(log, [entry EXCEPT !.applied = 1, !.ret = r])
                         /\ exc' = IF r.kind = "raise" THEN r.exc ELSE "OSError"
                         /\ tempdir' = TemporaryDirectory_exit(tempdir, exc')
                         /\ pc' = "raised"
                         /\ UNCHANGED <<fs, walk>>
                    ELSE /\ log' = Append(log, [entry EXCEPT !.applied = 1, !.ret = r,
                                                             !.completed = TRUE])
                         /\ fs' = write_result(fs, rel, r.value, f.st_mode)
                         /\ walk' = NextPosition
                         /\ UNCHANGED <<pc, exc, tempdir>>
    /\ UNCHANGED <<config_doc, previous, fs0, context_file, run, generated>>
    /\ UNCHANGED dispatchVars
    /\ UNCHANGED strategyVars

\* Line 121 and the end of the with-block: rollup returns.
Finish ==
    /\ pc = "walk"
    /\ walk.dir > Len(generated.dirs)
    /\ tempdir' = TemporaryDirectory_exit(tempdir, "")
    /\ pc' = "done"
    /\ UNCHANGED <<config_doc, previous, fs, fs0, context_file, run, generated, walk, log, exc>>
    /\ UNCHANGED dispatchVars
    /\ UNCHANGED strategyVars

Next ==
    \/ LoadConfig
    \/ GetTemplateMeta
    \/ MkdirTarget
    \/ EnterTempdir
    \/ Render
    \/ ValidateStructure
    \/ WalkDir
    \/ ProcessFile
    \/ Finish

Init == InitRollup

Spec == Init /\ [][Next]_vars

(***************************************************************************)
(* rollup called again on the target project it was called on, with the    *)
(* same template and configuration, after it returned or raised.           *)
(***************************************************************************)

\* Largest number of further calls of rollup on a target project.
MaxReruns == 1

\* The documents with valid entries only.
ValidConfigDocs ==
    {ConfigDoc(d, e1, e2) :
        d \in ValidDefaultEntries, e1 \in ValidMappingEntries, e2 \in ValidMappingEntries}

InitRetry ==
    /\ InitRollup
    /\ config_doc \in ValidConfigDocs

\* rollup is called again: the target tree is as the last run left it, the
\* locals of lines 20-38 are new.
Rerun ==
    /\ pc \in {"done", "raised"}
    /\ previous.runs < MaxReruns
    /\ previous' = [runs |-> previous.runs + 1,
                    fs0 |-> IF previous.runs = 0 THEN fs0 ELSE previous.fs0,
                    template_meta |-> IF previous.template_meta # None
                                      THEN previous.template_meta
                                      ELSE run.template_meta,
                    generated |-> IF previous.generated.rendered
                                  THEN previous.generated
                                  ELSE generated,
                    pc |-> pc, exc |-> exc, log |-> log]
    /\ pc' = "load_config"
    /\ fs0' = fs
    /\ run' = [NoRun EXCEPT !.cwd = "/home/user"]
    /\ tempdir' = NoTempdir
    /\ generated' = NoGenerated
    /\ walk' = [dir |-> 0, entered |-> FALSE, file |-> 0]
    /\ log' = <<>>
    /\ exc' = ""
    /\ scaraplate_yaml' = [default_strategy |-> NoNode, strategies_mapping |-> <<>>]
    /\ UNCHANGED <<path, strategy_node, config_doc, fs, context_file>>
    /\ UNCHANGED strategyVars

NextRetry ==
    \/ Next
    \/ Rerun

SpecRetry == InitRetry /\ [][NextRetry]_vars

(***************************************************************************)
(* Properties of the dispatch resolver                                     *)
(***************************************************************************)

\* The declared entries whose pattern matches the path.
MatchingEntries ==
    {k \in 1..Len(scaraplate_yaml.strategies_mapping) :
        fnmatch(path, scaraplate_yaml.strategies_mapping[k].pattern)}

\* The configuration with its entries declared in the order f.
Redeclared(f) ==
    [scaraplate_yaml EXCEPT
        !.strategies_mapping = [i \in 1..Len(@) |-> @[f[i]]]]

\* C1: get_strategy returns the node of the matching pattern that is least in
\* the lexicographic order of the pattern strings, whatever the declaration
\* order of the patterns is, and it returns the default_strategy node if and
\* only if no pattern matches the path.
C1_GlobPrecedence ==
    pc = "dispatched" =>
        LET items == scaraplate_yaml.strategies_mapping
            M == MatchingEntries
        IN  /\ (strategy_node = scaraplate_yaml.default_strategy) <=> (M = {})
            /\ M # {} =>
                   \E k \in M :
                       /\ \A m \in M \ {k} : StrLess(items[k].pattern, items[m].pattern)
                       /\ strategy_node = items[k].node
            /\ \A f \in Permutations(1..Len(items)) :
                   get_strategy(Redeclared(f), path) = strategy_node

\* Two patterns match and the one declared first is not the one that wins.
C1_Witness ==
    /\ pc = "dispatched"
    /\ Cardinality(MatchingEntries) >= 2
    /\ \E k \in MatchingEntries :
           /\ \A m \in MatchingEntries : k <= m
           /\ strategy_node # scaraplate_yaml.strategies_mapping[k].node

(***************************************************************************)
(* Properties of the strategies                                            *)
(***************************************************************************)

\* The two lines of the trailer of TemplateHash, without their line ends.
TrailerLines(meta) ==
    <<"# Generated by https://github.com/rambler-digital-solutions/scaraplate",
      IF meta.is_git_dirty THEN "# From (dirty) " \o meta.commit_url
      ELSE "# From " \o meta.commit_url>>

\* The trailer text of class cls: each line, then `marker` when the class is
\* PythonTemplateHash and the line has 87 characters or more, then a line end.
TrailerText(cls, meta, marker) ==
    LET lines == TrailerLines(meta)
        suffix(l) == IF cls = "PythonTemplateHash" /\ Len(l) >= 87 THEN marker ELSE ""
    IN  lines[1] \o suffix(lines[1]) \o "\n" \o lines[2] \o suffix(lines[2]) \o "\n"

Trailer(self) == encode_ascii(TrailerText(self.cls, self.template_meta, "  # noqa"))

EndsWith(b, t) == Len(b) >= Len(t) /\ SubSeq(b, Len(b) - Len(t) + 1, Len(b)) = t

\* The bytes the orchestrator reads from what the i-th application returned.
Bytes(i) == read(history[i].ret.value)

Returned(i) == history[i].ret.kind = "return" /\ history[i].ret.value # None

TargetBuf(i) == history[i].self.target_contents.buf

TemplateBuf(i) == history[i].self.template_contents.buf

HasTarget(i) == history[i].self.target_contents # None

CleanHash(i) ==
    /\ history[i].self.cls \in HashFamily
    /\ ~history[i].self.template_meta.is_git_dirty

DirtyHash(i) ==
    /\ history[i].self.cls \in HashFamily
    /\ history[i].self.template_meta.is_git_dirty

\* C2 as stated: with clean metadata the first application, whatever its
\* target, returns bytes ending in the trailer, which contains the commit URL;
\* the next application, its target that output, returns the target unchanged.
C2_Original ==
    \A i \in 1..Len(history) :
        CleanHash(i) =>
            /\ Returned(i)
            /\ Contains(Trailer(history[i].self),
                        encode_ascii(history[i].self.template_meta.commit_url))
            /\ i = 1 => EndsWith(Bytes(i), Trailer(history[i].self))
            /\ i > 1 => Bytes(i) = TargetBuf(i)

\* C2, amended: with clean metadata the first application returns bytes that
\* contain the trailer, which contains the commit URL: template + blank line +
\* trailer (so ending in the trailer) when there is no target or the target
\* does not contain the trailer, the target unchanged when it does; the next
\* application, its target that output, returns the target unchanged.
C2_IdempotentSkip ==
    \A i \in 1..Len(history) :
        CleanHash(i) =>
            LET t == Trailer(history[i].self) IN
            /\ Returned(i)
            /\ Contains(t, encode_ascii(history[i].self.template_meta.commit_url))
            /\ Contains(Bytes(i), t)
            /\ i = 1 =>
                   IF HasTarget(i) /\ Contains(TargetBuf(i), t)
                   THEN Bytes(i) = TargetBuf(i)
                   ELSE Bytes(i) = TemplateBuf(i) \o <<10>> \o t
            /\ i > 1 => Bytes(i) = TargetBuf(i) /\ Bytes(i) = Bytes(i - 1)

\* A second application under clean metadata, with another template than the
\* first, returned the first output.
C2_Witness ==
    /\ Len(history) = 2
    /\ CleanHash(1)
    /\ ~HasTarget(1)
    /\ TemplateBuf(2) # TemplateBuf(1)
    /\ Bytes(2) = TemplateBuf(1) \o <<10>> \o Trailer(history[1].self)

\* C3: with dirty metadata every application returns template + blank line +
\* the dirty trailer, also when the target already contains that trailer.
C3_DirtyNeverSkips ==
    \A i \in 1..Len(history) :
        DirtyHash(i) =>
            /\ Returned(i)
            /\ Bytes(i) = TemplateBuf(i) \o <<10>> \o Trailer(history[i].self)

\* A dirty application whose target holds the dirty trailer and other bytes
\* than the ones returned.
C3_Witness ==
    /\ Len(history) >= 1
    /\ DirtyHash(1)
    /\ HasTarget(1)
    /\ Contains(TargetBuf(1), Trailer(history[1].self))
    /\ Returned(1)
    /\ Bytes(1) # TargetBuf(1)

\* Section s of parser p defines option k.
Defines(p, s, k) == s \in DOMAIN p /\ k \in DOMAIN p[s]

PreservedKeys == {"ignored-modules", "ignored-classes"}

\* What C4 says of the i-th application.
KeyPreservation(i) ==
    /\ Returned(i)
    /\ LET tpl == pylintrc_parser(history[i].self.template_contents).value
           tgt == IF HasTarget(i)
                  THEN pylintrc_parser(history[i].self.target_contents).value
                  ELSE <<>>
           res == pylintrc_parser(history[i].ret.value).value
       IN  /\ \A k \in PreservedKeys :
                  IF Defines(tgt, "TYPECHECK", k)
                  THEN /\ Defines(res, "TYPECHECK", k)
                       /\ res["TYPECHECK"][k] = tgt["TYPECHECK"][k]
                  ELSE /\ Defines(res, "TYPECHECK", k) <=> Defines(tpl, "TYPECHECK", k)
                       /\ Defines(res, "TYPECHECK", k) =>
                              res["TYPECHECK"][k] = tpl["TYPECHECK"][k]
           /\ \A s \in DOMAIN res : \A k \in DOMAIN res[s] :
                  (s # "TYPECHECK" \/ k \notin PreservedKeys) =>
                      Defines(tpl, s, k) /\ res[s][k] = tpl[s][k]

\* C4: PylintrcMerge.apply succeeds; for ignored-modules and ignored-classes of
\* TYPECHECK the output has the target's value when the target defines the
\* key (also when the template has no TYPECHECK section), the template's
\* otherwise; every other option of the output is the template's.
C4_KeyPreservation ==
    \A i \in 1..Len(history) :
        history[i].self.cls = "PylintrcMerge" => KeyPreservation(i)

\* C5 as stated: the trailer of PythonTemplateHash has ` # noqa` (one blank)
\* after every line of 87 characters or more and leaves the other lines alone.
C5_Original ==
    \A i \in 1..Len(history) :
        history[i].self.cls = "PythonTemplateHash" =>
            LET t == encode_ascii(TrailerText("PythonTemplateHash",
                                              history[i].self.template_meta, " # noqa"))
            IN  /\ Returned(i)
                /\ \/ Bytes(i) = TemplateBuf(i) \o <<10>> \o t
                   \/ /\ HasTarget(i)
                      /\ Contains(TargetBuf(i), t)
                      /\ Bytes(i) = TargetBuf(i)

\* C5, amended: the trailer of PythonTemplateHash has `  # noqa` (two blanks,
\* then `# noqa`) after every line of 87 characters or more and leaves the
\* shorter lines as TemplateHash writes them.
C5_NoqaSuffix ==
    \A i \in 1..Len(history) :
        history[i].self.cls = "PythonTemplateHash" =>
            LET t == encode_ascii(TrailerText("PythonTemplateHash",
                                              history[i].self.template_meta, "  # noqa"))
            IN  /\ Returned(i)
                /\ comment_of(history[i].self) =
                       TrailerText("PythonTemplateHash", history[i].self.template_meta, "  # noqa")
                /\ \/ Bytes(i) = TemplateBuf(i) \o <<10>> \o t
                   \/ /\ HasTarget(i)
                      /\ ~history[i].self.template_meta.is_git_dirty
                      /\ Contains(TargetBuf(i), t)
                      /\ Bytes(i) = TargetBuf(i)

\* A PythonTemplateHash output whose `From` line has exactly 87 characters and
\* carries the marker, the `Generated by` line before it carrying none.
C5_Witness ==
    /\ Len(history) >= 1
    /\ history[1].self.cls = "PythonTemplateHash"
    /\ Len(TrailerLines(history[1].self.template_meta)[2]) = 87
    /\ Returned(1)
    /\ EndsWith(Bytes(1),
                encode_ascii("scaraplate\n"
                             \o TrailerLines(history[1].self.template_meta)[2]
                             \o "  # noqa\n"))

(***************************************************************************)
(* Properties of rollup                                                    *)
(***************************************************************************)

\* cookiecutter returned and left something else than [project_dest].
StructureMismatch ==
    /\ generated.rendered
    /\ pc # "validate"
    /\ generated.listing # <<run.project_dest>>

\* C6 as stated: on a structure mismatch rollup raises and the target tree is
\* as it was before the run: no file written or chmod'ed and no directory
\* made, the target directory itself included.
C6_Original ==
    StructureMismatch =>
        /\ pc = "raised"
        /\ exc = "RuntimeError"
        /\ log = <<>>
        /\ fs = fs0

\* C6, amended: on a structure mismatch rollup raises and nothing below the
\* target directory was written: no file written or chmod'ed, no directory
\* made in it.  The target directory itself exists: line 31 made it (and its
\* parents) before rendering when it was missing.
C6_StructuralValidation ==
    StructureMismatch =>
        /\ pc = "raised"
        /\ exc = "RuntimeError"
        /\ log = <<>>
        /\ fs.files = fs0.files
        /\ fs.dirs = fs0.dirs
        /\ fs.exists

\* A render that left two entries, for a target directory that was missing.
C6_Witness ==
    /\ StructureMismatch
    /\ Len(generated.listing) = 2
    /\ ~fs0.exists
    /\ fs.exists
    /\ exc = "RuntimeError"

DocEntries ==
    LET mapping == Get(config_doc, "strategies_mapping")
    IN  <<Get(config_doc, "default_strategy"), Get(mapping, "setup.py"), Get(mapping, "*.py")>>

\* C7: when default_strategy or any one strategies_mapping entry is invalid,
\* whatever the other entries are, rollup raises a ValueError before any file
\* system change and before any file is processed.
C7_ValidationBeforeMutation ==
    (\E k \in 1..3 : DocEntries[k] \in InvalidEntries) =>
        /\ pc \in {"load_config", "raised"}
        /\ pc = "raised" => exc = "ValueError"
        /\ fs = fs0
        /\ ~tempdir.created
        /\ ~generated.rendered
        /\ log = <<>>

\* rollup raised for a document whose only invalid entry is the last one
\* declared, the target directory missing.
C7_Witness ==
    /\ pc = "raised"
    /\ exc = "ValueError"
    /\ DocEntries[1] \in ValidDefaultEntries
    /\ DocEntries[2] \in ValidMappingEntries
    /\ DocEntries[3] \in InvalidEntries
    /\ ~fs0.exists
    /\ ~fs.exists

\* C8: after a file was processed, a result that is not None is the content
\* of the target file, whose permission bits are the low 9 bits of the
\* rendered file's mode (also when the result is the target's own bytes); a
\* result of None leaves the target file's content and mode (or its absence).
C8_WriteEffect ==
    \A k \in 1..Len(log) :
        log[k].completed =>
            IF log[k].ret.value # None
            THEN /\ log[k].path \in DOMAIN fs.files
                 /\ fs.files[log[k].path].content = read(log[k].ret.value)
                 /\ fs.files[log[k].path].mode \in 0..511
                 /\ RegularFile(fs.files[log[k].path].mode) = log[k].st_mode
            ELSE IF log[k].before = None
                 THEN log[k].path \notin DOMAIN fs.files
                 ELSE fs.files[log[k].path] = log[k].before

\* A strategy returned the target's own bytes and the file has them still,
\* with the mode of the rendered file instead of its own.
C8_Witness ==
    \E k \in 1..Len(log) :
        /\ log[k].completed
        /\ log[k].before # None
        /\ log[k].ret.value # None
        /\ read(log[k].ret.value) = log[k].before.content
        /\ fs.files[log[k].path].content = log[k].before.content
        /\ fs.files[log[k].path].mode # log[k].before.mode

\* C9: the scratch directory, with the cookiecutter configuration and cache
\* in it, exists while rollup runs in the with-block and is removed when
\* rollup returns or raises, on every exit path.
C9_ScratchRemoved ==
    /\ pc \in {"render", "validate", "walk"} => tempdir.exists
    /\ (pc \in {"done", "raised"} /\ tempdir.created) =>
           ~tempdir.exists /\ tempdir.entries = {}

\* rollup left by the exception of a strategy, after files were rendered.
C9_Witness ==
    /\ pc = "raised"
    /\ exc = "MergeError"
    /\ tempdir.created
    /\ ~tempdir.exists
    /\ log # <<>>

StrategySet == {"Overwrite", "TemplateHash", "PythonTemplateHash", "PylintrcMerge"}

\* C10: for every file taken up whose strategy is one of the Strategy Set,
\* constructing the strategy with the orchestrator's arguments succeeds and
\* apply() is called exactly once on that instance.
C10_StrategyLifecycle ==
    \A k \in 1..Len(log) :
        log[k].node.strategy \in StrategySet =>
            /\ log[k].constructed
            /\ log[k].applied = 1

(***************************************************************************)
(* Properties of a rollup run again                                        *)
(***************************************************************************)

\* The files of a rendered tree: [path, contents, st_mode].
RenderedFiles(g) ==
    UNION { { [path |-> RelPath(g.dirs[d].rel, g.dirs[d].files[k].name),
               contents |-> g.dirs[d].files[k].contents,
               st_mode |-> g.dirs[d].files[k].st_mode] :
                  k \in 1..Len(g.dirs[d].files) } :
            d \in 1..Len(g.dirs) }

\* The file at rel of a tree, None for a missing one.
FileAt(tree, rel) == IF rel \in DOMAIN tree.files THEN tree.files[rel] ELSE None

\* What one uninterrupted run leaves of the rendered file f under the
\* strategy cls, from the tree original: the file apply() returns for the
\* original target file, with the permission bits of the rendered file.
Uninterrupted(cls, f, meta, original) ==
    LET target == IF f.path \in DOMAIN original.files
                  THEN BytesIO(original.files[f.path].content)
                  ELSE None
        result == apply(Construct(cls, target, BytesIO(f.contents), meta))
    IN  [content |-> read(result.value), mode |-> PermissionBits(f.st_mode)]

\* The errors that come of the surroundings of a run and not of the template,
\* the configuration or the target: a failed render, a failed write, an
\* error of the template author's strategy.
TransientErrors == {"CookiecutterException", "OSError", "MergeError"}

\* An error while processing a file leaves every earlier file processed and
\* the failing file and the later ones as they were before the run.
AbortFrame ==
    (pc = "raised" /\ log # <<>>) =>
        /\ \A k \in 1..(Len(log) - 1) : log[k].completed
        /\ ~log[Len(log)].completed
        /\ \A rel \in (DOMAIN fs.files) \cup (DOMAIN fs0.files) :
               rel \notin {log[k].path : k \in 1..(Len(log) - 1)} =>
                   FileAt(fs, rel) = FileAt(fs0, rel)

\* After a run that was aborted at some file or went through, a run again
\* that no transient error cut short leaves every file of a strategy of
\* strategies.py as one uninterrupted run from the original tree.
RetryAsUninterrupted ==
    (/\ previous.runs >= 1
     /\ previous.pc = "done" \/ previous.log # <<>>
     /\ pc \in {"done", "raised"}
     /\ exc \notin TransientErrors
     /\ generated.rendered
     /\ ~run.template_meta.is_git_dirty) =>
        \A f \in RenderedFiles(generated) :
            LET node == get_strategy(scaraplate_yaml, f.path)
            IN  node.strategy \in StrategySet =>
                    FileAt(fs, f.path) =
                        Uninterrupted(node.strategy, f, run.template_meta, previous.fs0)

\* A second run that went through after one that went through changes the
\* content of no file of a strategy of strategies.py.
SecondRunChangesNothing ==
    (/\ previous.runs >= 1
     /\ previous.pc = "done"
     /\ pc = "done"
     /\ ~run.template_meta.is_git_dirty) =>
        \A f \in RenderedFiles(generated) :
            get_strategy(scaraplate_yaml, f.path).strategy \in StrategySet =>
                /\ f.path \in DOMAIN fs.files
                /\ f.path \in DOMAIN fs0.files
                /\ fs.files[f.path].content = fs0.files[f.path].content

\* C11: files are processed one at a time and an error at a file leaves the
\* earlier files written and the later ones untouched; with the same
\* template, configuration and clean TemplateMeta, a run aborted after any
\* prefix of the files and then run again from the start leaves every target
\* file with the content and the permission bits of one uninterrupted run
\* from the original target state; a second run that goes through changes no
\* file's content.
C11_SafeToRetry ==
    /\ AbortFrame
    /\ RetryAsUninterrupted
    /\ SecondRunChangesNothing

====
